---- MODULE Spec2Model ----
(***************************************************************************)
(* Model of telegram_phone_number_checker/main.py: the orchestration of    *)
(* validate_users (contact checks, temporary import, profile fetches,      *)
(* cleanup in the finally block), run_program / show_results, and the      *)
(* pure helpers (input parsing, phone normalisation, status formatting).   *)
(*                                                                         *)
(* A Python str is a sequence of one-character strings.  Every await of a  *)
(* remote call is two steps: the request is put in flight, and the service *)
(* answers it (with a result or with an error).                            *)
(***************************************************************************)
EXTENDS Integers, Sequences, FiniteSets, TLC

VARIABLES
    pc,                      \* position of the coroutine run_program / validate_users
    phone_numbers,           \* validate_users' argument (reassigned by the prompt)
    cleaned_numbers,         \* set[str], line 113
    unchecked,               \* numbers the comprehension of lines 100-104 has not reached
    numbers_not_in_contacts, \* set[str], lines 114-116
    temp_contacts,           \* None or the ImportedContacts of line 119
    unfetched,               \* numbers the comprehension of line 121 has not reached
    res,                     \* the dict being built at line 121
    exc,                     \* the exception in flight through the finally block
    result,                  \* what validate_users returned to run_program
    outfile,                 \* content of the output file
    console,                 \* the results printed by show_results
    inflight,                \* remote requests awaiting their answer
    contacts,                \* the operator's contact list at the remote service
    presence,                \* each account's raw presence status at the service
    contacts0,               \* history: the contact list before the run
    issued,                  \* history: how many requests of each kind were issued
    not_found,               \* history: numbers whose peer resolution raised ValueError
    failed                   \* history: the kinds of request that raised any other error

vars == <<pc, phone_numbers, cleaned_numbers, unchecked, numbers_not_in_contacts,
          temp_contacts, unfetched, res, exc, result, outfile, console, inflight,
          contacts, presence, contacts0, issued, not_found, failed>>

-----------------------------------------------------------------------------
(* Bounds of the model.                                                    *)

\* Largest number of comma-separated entries in the input string.
MaxNumbers == 3

-----------------------------------------------------------------------------
(* Python values.                                                          *)

\* None where a str is expected (user.phone).
None == <<"<None>">>
NoError == "no error"
RemoteServiceError == "RemoteServiceError"
ValueError == "ValueError"

Range(s) == {s[i] : i \in DOMAIN s}

\* str.replace(old, "") for a one-character old.
Replace(s, old) == SelectSeq(s, LAMBDA c : c # old)

\* str.split(","): the pieces between the commas, empty pieces included.
RECURSIVE Split(_)
Split(s) ==
    IF \A i \in DOMAIN s : s[i] # ","
    THEN <<s>>
    ELSE LET k == CHOOSE i \in DOMAIN s : s[i] = "," /\ \A j \in 1..(i-1) : s[j] # ","
         IN  <<SubSeq(s, 1, k - 1)>> \o Split(SubSeq(s, k + 1, Len(s)))

\* The entries written one after another, separated by commas.
RECURSIVE CommaSeparated(_)
CommaSeparated(parts) ==
    IF Len(parts) = 0 THEN <<>>
    ELSE IF Len(parts) = 1 THEN parts[1]
    ELSE parts[1] \o <<",">> \o CommaSeparated(Tail(parts))

-----------------------------------------------------------------------------
(* The remote service: accounts, their phones and presence statuses.       *)

\* Account ids.  101 and 102 are registered under phones "1" and "2"; 109 is
\* an account whose phone is hidden from the operator (user.phone is None).
\* No account is registered under phone "3" or under the empty string.
Accounts == {101, 102, 109}

PhoneOf(a) == CASE a = 101 -> <<"1">> [] a = 102 -> <<"2">> [] OTHER -> None

AccessHashOf(a) == a + 1000

\* A datetime, as the service returns it in UserStatusOffline.was_online.
DateTime(y, mo, d, h, mi, s, tz) ==
    [year |-> y, month |-> mo, day |-> d, hour |-> h, minute |-> mi, second |-> s,
     tzname |-> tz]

NoTime == DateTime(0, 0, 0, 0, 0, 0, "")

Status(kind, t) == [kind |-> kind, was_online |-> t]

UserStatusEmpty == Status("UserStatusEmpty", NoTime)
UserStatusOnline == Status("UserStatusOnline", NoTime)
UserStatusRecently == Status("UserStatusRecently", NoTime)
UserStatusLastWeek == Status("UserStatusLastWeek", NoTime)
UserStatusLastMonth == Status("UserStatusLastMonth", NoTime)
UserStatusOffline(t) == Status("UserStatusOffline", t)
\* user.status is None for some accounts, and the service may add variants.
StatusNone == Status("None", NoTime)
StatusUnrecognized == Status("UserStatusHidden", NoTime)

Timestamps ==
    {DateTime(y, mo, d, h, mi, s, "UTC") :
        y \in {1970, 2024}, mo \in {1, 12}, d \in {9, 31}, h \in {0, 23},
        mi \in {7, 59}, s \in {0, 30}}

Statuses ==
    {UserStatusEmpty, UserStatusOnline, UserStatusRecently, UserStatusLastWeek,
     UserStatusLastMonth, StatusNone, StatusUnrecognized}
    \cup {UserStatusOffline(t) : t \in Timestamps}

-----------------------------------------------------------------------------
(* Status Formatter (lines 24-39).  A display string is a sequence of      *)
(* chunks: a fixed label is one chunk, a formatted timestamp is one chunk  *)
(* per character, with the time zone name as the last chunk.               *)

DigitChars == <<"0", "1", "2", "3", "4", "5", "6", "7", "8", "9">>

\* The decimal digits of n, zero-padded on the left to at least `width`.
RECURSIVE ZeroPadded(_, _)
ZeroPadded(n, width) ==
    IF n < 10 /\ width <= 1
    THEN <<DigitChars[n + 1]>>
    ELSE ZeroPadded(n \div 10, width - 1) \o <<DigitChars[(n % 10) + 1]>>

\* datetime.strftime("%Y-%m-%d %H:%M:%S %Z")
strftime(t) ==
    ZeroPadded(t.year, 4) \o <<"-">> \o ZeroPadded(t.month, 2) \o <<"-">>
    \o ZeroPadded(t.day, 2) \o <<" ">> \o ZeroPadded(t.hour, 2) \o <<":">>
    \o ZeroPadded(t.minute, 2) \o <<":">> \o ZeroPadded(t.second, 2) \o <<" ">>
    \o <<t.tzname>>

\* Faulty variant of get_human_readable_status: the offline case falls through
\* and two labels are mixed up.
MisplacedFallbackStatus(status) ==
    CASE status.kind = "UserStatusEmpty" -> <<"Unknown">>
      [] status.kind = "UserStatusOnline" -> <<"Currently online">>
      [] status.kind = "UserStatusOffline" -> <<"Unknown status returned">>
      [] status.kind = "UserStatusRecently" -> <<"Last seen recently">>
      [] status.kind = "UserStatusLastWeek" -> <<"Last seen last week">>
      [] status.kind = "UserStatusLastMonth" -> <<"Last seen last week">>
      [] OTHER -> <<"Unknown">>

get_human_readable_status(status) ==
    CASE status.kind = "UserStatusEmpty" -> <<"Unknown">>
      [] status.kind = "UserStatusOnline" -> <<"Currently online">>
      [] status.kind = "UserStatusOffline" -> strftime(status.was_online)
      [] status.kind = "UserStatusRecently" -> <<"Last seen recently">>
      [] status.kind = "UserStatusLastWeek" -> <<"Last seen last week">>
      [] status.kind = "UserStatusLastMonth" -> <<"Last seen last month">>
      [] OTHER -> <<"Unknown status returned">>

-----------------------------------------------------------------------------
(* Values exchanged with the service.                                      *)

\* A User object as the service returns it.
User(a, status) ==
    [id |-> a, access_hash |-> AccessHashOf(a), phone |-> PhoneOf(a), status |-> status]

\* types.InputUser(user_id=user.id, access_hash=user.access_hash), lines 126-127
InputUser(user) == [user_id |-> user.id, access_hash |-> user.access_hash]

\* The phone as the service keys accounts: digits only.
Canonical(phone) == Replace(Replace(phone, "+"), " ")

\* The accounts registered under a phone number, as written by the caller.
AccountsWithPhone(phone) ==
    {a \in Accounts : PhoneOf(a) # None /\ PhoneOf(a) = Canonical(phone)}

\* Optional[ImportedContacts]: temp_contacts of lines 117-119.
NoContacts == [is_none |-> TRUE, users |-> {}]
ImportedContacts(users) == [is_none |-> FALSE, users |-> users]

\* The dict get_user_info returns, lines 51-68 (the fields that are plain
\* copies of the User's are represented by id and phone).
EmptyRecord == <<>>
ProfileRecord(peer_id, user) ==
    [id |-> peer_id, user_was_online |-> get_human_readable_status(user.status),
     phone |-> user.phone]

Kinds == {"GetContactsRequest", "ImportContactsRequest", "get_peer_id",
          "GetFullUserRequest", "DeleteContactsRequest"}

\* A remote request in flight: the call, the input number it is made for
\* (empty for the batch calls) and its argument.
Request(kind, phone, arg) == [kind |-> kind, phone |-> phone, arg |-> arg]

-----------------------------------------------------------------------------
(* Pure pieces of the program.                                             *)

\* Faulty variant of CleanedNumbers: the spaces are left in.
SplitWithoutStrippingSpaces(s) == Range(Split(s))

\* set(phone_numbers.replace(" ", "").split(",")), line 113
CleanedNumbers(s) == Range(Split(Replace(s, " ")))

\* Faulty variant of normalized_target_number: the "+" is kept.
SpacesOnlyNormalized(phone_number) == Replace(phone_number, " ")

\* phone_number.replace("+", "").replace(" ", ""), line 72
normalized_target_number(phone_number) ==
    Replace(Replace(phone_number, "+"), " ")

\* contact.phone.replace(" ", "") if contact.phone else None, lines 75-77
normalized_contact_number(phone) ==
    IF phone # None /\ phone # <<>> THEN Replace(phone, " ") ELSE None

\* The loop of _is_phone_number_a_contact over contacts.users, lines 74-80
_is_phone_number_a_contact(users, phone_number) ==
    \E contact \in users :
        normalized_target_number(phone_number) = normalized_contact_number(contact.phone)

\* Faulty variant of ShouldImport: the import is requested unconditionally.
AlwaysImport(missing) == TRUE

\* if numbers_not_in_contacts:, line 118
ShouldImport(missing) == missing # {}

\* Faulty variant of NextLookups: the lookups are gathered concurrently.
AllAtOnce(remaining) == {remaining}

\* The comprehension of line 121 awaits get_user_info for one number at a time:
\* the sets of numbers whose lookup may be started next.
NextLookups(remaining) == {{n} : n \in remaining}

\* Faulty variant of CaughtInGetUserInfo: no except clause.
NothingCaught(error) == FALSE

\* except ValueError:, lines 47-49
CaughtInGetUserInfo(error) == error = ValueError

\* Faulty variant of LeaveTry: the cleanup follows the try without a finally.
CleanupOnSuccessOnly(error) == IF error = NoError THEN "finally" ELSE "raised"

\* try: ... finally:, lines 120-122: both exits of the comprehension enter
\* the finally block.
LeaveTry(error) == "finally"

\* if temp_contacts:, line 123 (None is falsy, an ImportedContacts is truthy)
Truthy(tc) == ~tc.is_none

\* Faulty variant of to_delete: the list is left empty.
DeleteNothing(tc) == {}

\* to_delete, lines 125-128
to_delete(tc) == {InputUser(user) : user \in tc.users}

\* Faulty variant of LeaveFinally: the block returns, dropping the exception.
SwallowInFinally(error) == "returned"

\* The end of the finally block: the return of line 121 takes effect, or the
\* pending exception goes on to the caller.
LeaveFinally(error) == IF error = NoError THEN "returned" ELSE "raised"

\* Faulty variant of RaisedInFinally: the error of the delete is suppressed.
DeleteErrorSuppressed(pending) == pending

\* An exception of the await at line 129 replaces whatever was pending.
RaisedInFinally(pending) == RemoteServiceError

-----------------------------------------------------------------------------
(* Initial states.                                                         *)

\* Ways of writing one entry of the input: with and without a leading "+",
\* with a space, a number nobody is registered under, and nothing at all.
Forms == {<<"1">>, <<"+", "1">>, <<" ", "1">>, <<"2">>, <<"3">>, <<>>}

\* The strings the operator may pass with --phone-numbers or type at the
\* prompt; the empty string stands for an absent option as well.
Inputs == {CommaSeparated(parts) : parts \in UNION {[1..n -> Forms] : n \in 1..MaxNumbers}}

NotReturned == [returned |-> FALSE, value |-> <<>>]
Returned(value) == [returned |-> TRUE, value |-> value]
NotWritten == [written |-> FALSE, content |-> <<>>]
Written(content) == [written |-> TRUE, content |-> content]

InitProgram ==
    /\ pc = "validate_users"
    /\ phone_numbers \in Inputs
    /\ cleaned_numbers = {}
    /\ unchecked = {}
    /\ numbers_not_in_contacts = {}
    /\ temp_contacts = NoContacts
    /\ unfetched = {}
    /\ res = <<>>
    /\ exc = NoError
    /\ result = NotReturned
    /\ outfile = NotWritten
    /\ console = NotWritten
    /\ inflight = {}
    /\ contacts \in SUBSET Accounts
    /\ contacts0 = contacts
    /\ issued = [k \in Kinds |-> 0]
    /\ not_found = {}
    /\ failed = {}

Init ==
    /\ InitProgram
    /\ presence = [a \in Accounts |->
                     CASE a = 101 -> UserStatusOnline
                       [] a = 102 -> UserStatusOffline(DateTime(2024, 1, 9, 23, 7, 30, "UTC"))
                       [] OTHER -> StatusNone]

-----------------------------------------------------------------------------
(* validate_users, lines 107-119: parsing, contact checks, import.         *)

Count(kind, n) == [issued EXCEPT ![kind] = @ + n]

\* lines 111-112: nothing was passed, the operator is asked.
PromptForNumbers ==
    /\ pc = "validate_users"
    /\ phone_numbers = <<>>
    /\ \E typed \in Inputs : phone_numbers' = typed
    /\ pc' = "clean"
    /\ UNCHANGED <<cleaned_numbers, unchecked, numbers_not_in_contacts, temp_contacts,
                   unfetched, res, exc, result, outfile, console, inflight, contacts,
                   presence, contacts0, issued, not_found, failed>>

\* line 113
SplitNumbers ==
    /\ \/ pc = "clean"
       \/ pc = "validate_users" /\ phone_numbers # <<>>
    /\ cleaned_numbers' = CleanedNumbers(phone_numbers)
    /\ unchecked' = cleaned_numbers'
    /\ pc' = "check"
    /\ UNCHANGED <<phone_numbers, numbers_not_in_contacts, temp_contacts, unfetched,
                   res, exc, result, outfile, console, inflight, contacts, presence,
                   contacts0, issued, not_found, failed>>

\* lines 100-103 and 73: the next number's membership check asks for the contact list.
IssueGetContacts ==
    /\ pc = "check"
    /\ \E number \in unchecked :
        /\ inflight' = inflight \cup {Request("GetContactsRequest", number, {})}
        /\ unchecked' = unchecked \ {number}
    /\ issued' = Count("GetContactsRequest", 1)
    /\ pc' = "await_contacts"
    /\ UNCHANGED <<phone_numbers, cleaned_numbers, numbers_not_in_contacts,
                   temp_contacts, unfetched, res, exc, result, outfile, console,
                   contacts, presence, contacts0, not_found, failed>>

\* lines 73-80 and 103: the list arrives and the number is kept if it is no contact.
GetContactsReturns ==
    /\ pc = "await_contacts"
    /\ \E r \in inflight :
        /\ r.kind = "GetContactsRequest"
        /\ LET users == {User(a, presence[a]) : a \in contacts}
           IN  numbers_not_in_contacts' =
                   IF _is_phone_number_a_contact(users, r.phone)
                   THEN numbers_not_in_contacts
                   ELSE numbers_not_in_contacts \cup {r.phone}
        /\ inflight' = inflight \ {r}
    /\ pc' = "check"
    /\ UNCHANGED <<phone_numbers, cleaned_numbers, unchecked, temp_contacts, unfetched,
                   res, exc, result, outfile, console, contacts, presence, contacts0,
                   issued, not_found, failed>>

\* line 73 raises: nothing catches it and no finally block is entered yet.
GetContactsRaises ==
    /\ pc = "await_contacts"
    /\ \E r \in inflight :
        /\ r.kind = "GetContactsRequest"
        /\ inflight' = inflight \ {r}
    /\ exc' = RemoteServiceError
    /\ pc' = "raised"
    /\ failed' = failed \cup {"GetContactsRequest"}
    /\ UNCHANGED <<phone_numbers, cleaned_numbers, unchecked, numbers_not_in_contacts,
                   temp_contacts, unfetched, res, result, outfile, console, contacts,
                   presence, contacts0, issued, not_found>>

\* lines 117-119 and 86-93: some number is no contact, the import is requested.
IssueImportContacts ==
    /\ pc = "check"
    /\ unchecked = {}
    /\ ShouldImport(numbers_not_in_contacts)
    /\ inflight' = inflight
                   \cup {Request("ImportContactsRequest", <<>>, numbers_not_in_contacts)}
    /\ issued' = Count("ImportContactsRequest", 1)
    /\ pc' = "await_import"
    /\ UNCHANGED <<phone_numbers, cleaned_numbers, unchecked, numbers_not_in_contacts,
                   temp_contacts, unfetched, res, exc, result, outfile, console,
                   contacts, presence, contacts0, not_found, failed>>

\* lines 117-118: every number is a contact already.
SkipImport ==
    /\ pc = "check"
    /\ unchecked = {}
    /\ ~ShouldImport(numbers_not_in_contacts)
    /\ unfetched' = cleaned_numbers
    /\ pc' = "try"
    /\ UNCHANGED <<phone_numbers, cleaned_numbers, unchecked, numbers_not_in_contacts,
                   temp_contacts, res, exc, result, outfile, console, inflight,
                   contacts, presence, contacts0, issued, not_found, failed>>

\* lines 91-96 and 119: the service adds the accounts registered under the
\* submitted numbers to the contact list and returns them.
ImportContactsReturns ==
    /\ pc = "await_import"
    /\ \E r \in inflight :
        /\ r.kind = "ImportContactsRequest"
        /\ LET added == UNION {AccountsWithPhone(number) : number \in r.arg}
           IN  /\ contacts' = contacts \cup added
               /\ temp_contacts' = ImportedContacts({User(a, presence[a]) : a \in added})
        /\ inflight' = inflight \ {r}
    /\ unfetched' = cleaned_numbers
    /\ pc' = "try"
    /\ UNCHANGED <<phone_numbers, cleaned_numbers, unchecked, numbers_not_in_contacts,
                   res, exc, result, outfile, console, presence, contacts0, issued,
                   not_found, failed>>

\* lines 91-93 raise: temp_contacts stays None and the try is never entered.
ImportContactsRaises ==
    /\ pc = "await_import"
    /\ \E r \in inflight :
        /\ r.kind = "ImportContactsRequest"
        /\ inflight' = inflight \ {r}
    /\ exc' = RemoteServiceError
    /\ pc' = "raised"
    /\ failed' = failed \cup {"ImportContactsRequest"}
    /\ UNCHANGED <<phone_numbers, cleaned_numbers, unchecked, numbers_not_in_contacts,
                   temp_contacts, unfetched, res, result, outfile, console, contacts,
                   presence, contacts0, issued, not_found>>

-----------------------------------------------------------------------------
(* validate_users, lines 120-121, and get_user_info, lines 42-68.          *)

\* lines 121 and 44-46: get_user_info is entered for the next number and asks
\* for its peer id.
IssueGetPeerId ==
    /\ pc = "try"
    /\ \E batch \in NextLookups(unfetched) :
        /\ inflight' = inflight \cup {Request("get_peer_id", number, {}) : number \in batch}
        /\ unfetched' = unfetched \ batch
        /\ issued' = Count("get_peer_id", Cardinality(batch))
    /\ pc' = "await_peer_id"
    /\ UNCHANGED <<phone_numbers, cleaned_numbers, unchecked, numbers_not_in_contacts,
                   temp_contacts, res, exc, result, outfile, console, contacts,
                   presence, contacts0, not_found, failed>>

\* lines 46 and 50: the number resolves to a contact's id, and the full user
\* is requested for it.
GetPeerIdReturns ==
    /\ pc = "await_peer_id"
    /\ \E r \in inflight :
        /\ r.kind = "get_peer_id"
        /\ \E peer_id \in contacts \cap AccountsWithPhone(r.phone) :
            inflight' = (inflight \ {r})
                        \cup {Request("GetFullUserRequest", r.phone, {peer_id})}
    /\ issued' = Count("GetFullUserRequest", 1)
    /\ pc' = "await_full_user"
    /\ UNCHANGED <<phone_numbers, cleaned_numbers, unchecked, numbers_not_in_contacts,
                   temp_contacts, unfetched, res, exc, result, outfile, console,
                   contacts, presence, contacts0, not_found, failed>>

\* lines 46-49: the resolution raises; ValueError when the number is nobody
\* among the contacts, any other error at any time.
GetPeerIdRaises ==
    /\ pc = "await_peer_id"
    /\ \E r \in inflight :
        /\ r.kind = "get_peer_id"
        /\ \E error \in {RemoteServiceError}
                        \cup (IF contacts \cap AccountsWithPhone(r.phone) = {}
                              THEN {ValueError} ELSE {}) :
            /\ not_found' = IF error = ValueError
                            THEN not_found \cup {r.phone} ELSE not_found
            /\ failed' = IF error = ValueError
                         THEN failed ELSE failed \cup {"get_peer_id"}
            /\ IF CaughtInGetUserInfo(error)
               THEN /\ res' = res @@ (r.phone :> EmptyRecord)
                    /\ pc' = "try"
                    /\ exc' = exc
               ELSE /\ res' = res
                    /\ pc' = LeaveTry(error)
                    /\ exc' = error
        /\ inflight' = inflight \ {r}
    /\ UNCHANGED <<phone_numbers, cleaned_numbers, unchecked, numbers_not_in_contacts,
                   temp_contacts, unfetched, result, outfile, console, contacts,
                   presence, contacts0, issued>>

\* lines 50-68: the full user arrives and is projected into the record.
GetFullUserReturns ==
    /\ pc = "await_full_user"
    /\ \E r \in inflight :
        /\ r.kind = "GetFullUserRequest"
        /\ \E peer_id \in r.arg :
            res' = res @@ (r.phone :> ProfileRecord(peer_id, User(peer_id, presence[peer_id])))
        /\ inflight' = inflight \ {r}
    /\ pc' = "try"
    /\ UNCHANGED <<phone_numbers, cleaned_numbers, unchecked, numbers_not_in_contacts,
                   temp_contacts, unfetched, exc, result, outfile, console, contacts,
                   presence, contacts0, issued, not_found, failed>>

\* line 50 raises: get_user_info does not catch it.
GetFullUserRaises ==
    /\ pc = "await_full_user"
    /\ \E r \in inflight :
        /\ r.kind = "GetFullUserRequest"
        /\ inflight' = inflight \ {r}
    /\ exc' = RemoteServiceError
    /\ pc' = LeaveTry(RemoteServiceError)
    /\ failed' = failed \cup {"GetFullUserRequest"}
    /\ UNCHANGED <<phone_numbers, cleaned_numbers, unchecked, numbers_not_in_contacts,
                   temp_contacts, unfetched, res, result, outfile, console, contacts,
                   presence, contacts0, issued, not_found>>

\* line 121: the comprehension is exhausted and its dict is the return value.
FetchComplete ==
    /\ pc = "try"
    /\ unfetched = {}
    /\ pc' = LeaveTry(NoError)
    /\ UNCHANGED <<phone_numbers, cleaned_numbers, unchecked, numbers_not_in_contacts,
                   temp_contacts, unfetched, res, exc, result, outfile, console,
                   inflight, contacts, presence, contacts0, issued, not_found, failed>>

-----------------------------------------------------------------------------
(* validate_users, lines 122-129: the finally block.                       *)

\* What the caller gets when the function is left at `at` with dict `value`.
Outcome(at, value) == IF at = "returned" THEN Returned(value) ELSE NotReturned

\* lines 123-129
IssueDeleteContacts ==
    /\ pc = "finally"
    /\ Truthy(temp_contacts)
    /\ inflight' = inflight
                   \cup {Request("DeleteContactsRequest", <<>>, to_delete(temp_contacts))}
    /\ issued' = Count("DeleteContactsRequest", 1)
    /\ pc' = "await_delete"
    /\ UNCHANGED <<phone_numbers, cleaned_numbers, unchecked, numbers_not_in_contacts,
                   temp_contacts, unfetched, res, exc, result, outfile, console,
                   contacts, presence, contacts0, not_found, failed>>

\* line 123: temp_contacts is None, the block does nothing.
SkipCleanup ==
    /\ pc = "finally"
    /\ ~Truthy(temp_contacts)
    /\ pc' = LeaveFinally(exc)
    /\ result' = Outcome(pc', res)
    /\ UNCHANGED <<phone_numbers, cleaned_numbers, unchecked, numbers_not_in_contacts,
                   temp_contacts, unfetched, res, exc, outfile, console, inflight,
                   contacts, presence, contacts0, issued, not_found, failed>>

\* line 129: the service removes the listed accounts from the contact list.
DeleteContactsReturns ==
    /\ pc = "await_delete"
    /\ \E r \in inflight :
        /\ r.kind = "DeleteContactsRequest"
        /\ contacts' = {a \in contacts :
                          [user_id |-> a, access_hash |-> AccessHashOf(a)] \notin r.arg}
        /\ inflight' = inflight \ {r}
    /\ pc' = LeaveFinally(exc)
    /\ result' = Outcome(pc', res)
    /\ UNCHANGED <<phone_numbers, cleaned_numbers, unchecked, numbers_not_in_contacts,
                   temp_contacts, unfetched, res, exc, outfile, console, presence,
                   contacts0, issued, not_found, failed>>

\* line 129 raises: the contact list is as it was, nothing retries the call.
DeleteContactsRaises ==
    /\ pc = "await_delete"
    /\ \E r \in inflight :
        /\ r.kind = "DeleteContactsRequest"
        /\ inflight' = inflight \ {r}
    /\ exc' = RaisedInFinally(exc)
    /\ pc' = LeaveFinally(exc')
    /\ result' = Outcome(pc', res)
    /\ failed' = failed \cup {"DeleteContactsRequest"}
    /\ UNCHANGED <<phone_numbers, cleaned_numbers, unchecked, numbers_not_in_contacts,
                   temp_contacts, unfetched, res, outfile, console, contacts, presence,
                   contacts0, issued, not_found>>

-----------------------------------------------------------------------------
(* run_program, lines 248-249, and show_results, lines 132-136.            *)

show_results ==
    /\ pc = "returned"
    /\ console' = Written(result.value)
    /\ outfile' = Written(result.value)
    /\ pc' = "done"
    /\ UNCHANGED <<phone_numbers, cleaned_numbers, unchecked, numbers_not_in_contacts,
                   temp_contacts, unfetched, res, exc, result, inflight, contacts,
                   presence, contacts0, issued, not_found, failed>>

\* Every step but the prompt.
Run ==
    \/ SplitNumbers
    \/ IssueGetContacts
    \/ GetContactsReturns
    \/ GetContactsRaises
    \/ IssueImportContacts
    \/ SkipImport
    \/ ImportContactsReturns
    \/ ImportContactsRaises
    \/ IssueGetPeerId
    \/ GetPeerIdReturns
    \/ GetPeerIdRaises
    \/ GetFullUserReturns
    \/ GetFullUserRaises
    \/ FetchComplete
    \/ IssueDeleteContacts
    \/ SkipCleanup
    \/ DeleteContactsReturns
    \/ DeleteContactsRaises
    \/ show_results

Next ==
    \/ PromptForNumbers
    \/ Run

Spec == Init /\ [][Next]_vars

\* One-entry inputs against every presence status of account 101.
InitStatus ==
    /\ InitProgram
    /\ Len(Split(phone_numbers)) = 1
    /\ presence \in {[a \in Accounts |-> IF a = 101 THEN s ELSE UserStatusRecently] :
                        s \in Statuses}

\* lines 111-112, the operator typing one entry.
PromptForOneNumber == PromptForNumbers /\ Len(Split(phone_numbers')) = 1

NextStatus ==
    \/ PromptForOneNumber
    \/ Run

SpecStatus == InitStatus /\ [][NextStatus]_vars

-----------------------------------------------------------------------------
(* Vocabulary of the properties.                                           *)

\* validate_users has been left, by return or by exception.
Completed == pc \in {"returned", "raised", "done"}

InFlight(kind) == {r \in inflight : r.kind = kind}

FetchKinds == {"get_peer_id", "GetFullUserRequest"}

\* The input number belongs to an account that was a contact before the run.
WasContact(number) == AccountsWithPhone(number) \cap contacts0 # {}

\* The accounts the import of this run returned.
Imported == {user.id : user \in temp_contacts.users}

Targets(r) == {input_user.user_id : input_user \in r.arg}

\* The entries of the input string: split at the commas, spaces dropped from
\* each entry.
Entries(s) == {Replace(Split(s)[i], " ") : i \in DOMAIN Split(s)}

WithoutLeadingPlus(number) ==
    IF number # <<>> /\ Head(number) = "+" THEN Tail(number) ELSE number

-----------------------------------------------------------------------------
(* Properties.                                                             *)

\* C1: once the import has returned its ImportedContacts, validate_users is
\* never left, by return or by exception, without one delete request having
\* been issued; the request lists the imported accounts and is issued only
\* when no lookup is outstanding and the fetch phase is over (every number
\* looked up, or an error pending).
C1_CleanupOnEveryExit ==
    /\ (Completed /\ ~temp_contacts.is_none) => issued["DeleteContactsRequest"] = 1
    /\ \A r \in InFlight("DeleteContactsRequest") :
        /\ Targets(r) = Imported
        /\ \A k \in FetchKinds : InFlight(k) = {}
        /\ unfetched = {} \/ exc # NoError

\* C1 witness: a batch of three numbers, a lookup failed after a record had been
\* fetched, contacts had been created, and the error has reached the caller
\* with the delete issued and the contacts gone.
C1_Witness ==
    /\ pc = "raised"
    /\ Cardinality(cleaned_numbers) = 3
    /\ failed \cap FetchKinds # {}
    /\ DOMAIN res # {}
    /\ Cardinality(Imported) = 2
    /\ issued["DeleteContactsRequest"] = 1
    /\ "DeleteContactsRequest" \notin failed
    /\ contacts = contacts0

\* C2 as stated: whenever validate_users has been left, the contact list is
\* the list as it was before the run.
C2_RoundTripAlways == Completed => contacts = contacts0

\* C2 amended: whenever validate_users has been left, the contact list is the
\* pre-run list if the delete request did not fail, and the pre-run list plus
\* the accounts imported by this run if it failed.
C2_RoundTripUnlessDeleteFails ==
    Completed =>
        IF "DeleteContactsRequest" \in failed
        THEN contacts = contacts0 \cup Imported
        ELSE contacts = contacts0

\* C2 witness: contacts were imported next to pre-existing ones, the run has
\* ended and the list is back to the pre-run list.
C2_Witness ==
    /\ pc = "done"
    /\ Imported # {}
    /\ contacts0 # {}
    /\ Imported \cap contacts0 = {}
    /\ contacts = contacts0

\* C3: no import request carries a number whose account was a contact before
\* the run, and every delete request lists only accounts that this run's
\* import returned and that were no contacts before the run.
C3_ExistingContactsUntouched ==
    /\ \A r \in InFlight("ImportContactsRequest") :
        \A number \in r.arg : ~WasContact(number)
    /\ \A r \in InFlight("DeleteContactsRequest") :
        /\ Targets(r) \subseteq Imported
        /\ Targets(r) \cap contacts0 = {}
    /\ \A number \in cleaned_numbers :
        (WasContact(number) /\ unchecked = {} /\ InFlight("GetContactsRequest") = {}
            /\ pc # "raised")
        => number \notin numbers_not_in_contacts

\* C3 witness: the input names a contact (written with "+") and a number that
\* is no contact; the import was made for the second alone and the delete
\* request for its account is in flight.
C3_Witness ==
    /\ \E number \in cleaned_numbers : WasContact(number) /\ Head(number) = "+"
    /\ \E r \in InFlight("DeleteContactsRequest") : Targets(r) # {}
    /\ numbers_not_in_contacts # {}

\* C4 as stated: the keys of the returned dict are the input's entries with
\* spaces and a leading "+" stripped.
C4_KeysStripPlus ==
    pc = "returned" =>
        DOMAIN result.value = {WithoutLeadingPlus(e) : e \in Entries(phone_numbers)}

\* C4 amended: the keys of the returned dict are exactly the distinct entries
\* of the input with their spaces stripped; a leading "+" is kept, so "+1" and
\* "1" are two keys.
C4_KeysAreEntries ==
    pc = "returned" => DOMAIN result.value = Entries(phone_numbers)

\* C4 witness: three entries, one number written three ways ("1", " 1",
\* "+1"), returned under the two keys "1" and "+1".
C4_Witness ==
    /\ pc = "returned"
    /\ Len(Split(phone_numbers)) = 3
    /\ \E i \in DOMAIN phone_numbers : phone_numbers[i] = " "
    /\ DOMAIN result.value = {<<"1">>, <<"+", "1">>}

\* C5: a number whose resolution raised ValueError has the empty record in the
\* dict, ValueError is never the exception leaving validate_users, the function
\* is left by exception only if some request raised another error, and a
\* returned dict has an entry for every number of the batch.
C5_NotFoundIsEmptyRecord ==
    /\ \A number \in not_found : number \in DOMAIN res /\ res[number] = EmptyRecord
    /\ exc # ValueError
    /\ pc = "raised" => failed # {}
    /\ result.returned =>
        /\ DOMAIN result.value = cleaned_numbers
        /\ \A number \in not_found : result.value[number] = EmptyRecord

\* C5 witness: a run returned a dict holding the empty record for a number
\* that was not found and a full record for another one.
C5_Witness ==
    /\ pc = "done"
    /\ not_found # {}
    /\ \E number \in DOMAIN result.value : result.value[number] # EmptyRecord

\* C6: once a lookup request has raised an error other than not-found, nothing
\* is returned, printed or written, and validate_users is left only by the
\* exception.
C6_FetchFailureAborts ==
    failed \cap FetchKinds # {} =>
        /\ result = NotReturned
        /\ outfile = NotWritten
        /\ console = NotWritten
        /\ pc \notin {"returned", "done"}
        /\ exc = RemoteServiceError

\* C6 witness: the error of a failed lookup has reached the caller although
\* records had been fetched before it.
C6_Witness ==
    /\ pc = "raised"
    /\ failed \cap FetchKinds # {}
    /\ \E number \in DOMAIN res : res[number] # EmptyRecord
    /\ result = NotReturned

\* The number a run of digit characters writes.
DigitValue(c) == (CHOOSE d \in DOMAIN DigitChars : DigitChars[d] = c) - 1

RECURSIVE Number(_)
Number(digits) ==
    IF digits = <<>> THEN 0
    ELSE 10 * Number(SubSeq(digits, 1, Len(digits) - 1)) + DigitValue(digits[Len(digits)])

\* text reads "YYYY-MM-DD HH:MM:SS ZZZ" for the datetime t.
ReadsAs(text, t) ==
    /\ Len(text) = 21
    /\ text[5] = "-" /\ text[8] = "-" /\ text[11] = " "
    /\ text[14] = ":" /\ text[17] = ":" /\ text[20] = " "
    /\ \A i \in (1..19) \ {5, 8, 11, 14, 17} : text[i] \in Range(DigitChars)
    /\ Number(SubSeq(text, 1, 4)) = t.year
    /\ Number(SubSeq(text, 6, 7)) = t.month
    /\ Number(SubSeq(text, 9, 10)) = t.day
    /\ Number(SubSeq(text, 12, 13)) = t.hour
    /\ Number(SubSeq(text, 15, 16)) = t.minute
    /\ Number(SubSeq(text, 18, 19)) = t.second
    /\ text[21] = t.tzname

\* C7: every non-empty record of the dict carries, as user_was_online, the
\* label of its account's presence status: "Unknown" for empty, "Currently
\* online" for online, the was_online timestamp written as
\* "%Y-%m-%d %H:%M:%S %Z" for offline, "Last seen recently", "Last seen last
\* week", "Last seen last month", and "Unknown status returned" for any other
\* value.
C7_StatusLabels ==
    \A number \in DOMAIN res :
        res[number] # EmptyRecord =>
            LET status == presence[res[number].id]
                shown == res[number].user_was_online
            IN  CASE status.kind = "UserStatusEmpty" -> shown = <<"Unknown">>
                  [] status.kind = "UserStatusOnline" -> shown = <<"Currently online">>
                  [] status.kind = "UserStatusOffline" -> ReadsAs(shown, status.was_online)
                  [] status.kind = "UserStatusRecently" -> shown = <<"Last seen recently">>
                  [] status.kind = "UserStatusLastWeek" -> shown = <<"Last seen last week">>
                  [] status.kind = "UserStatusLastMonth" -> shown = <<"Last seen last month">>
                  [] OTHER -> shown = <<"Unknown status returned">>

\* C7 witness: the written results hold the record of an account that is
\* offline, last seen on 2024-12-31 at 23:59:30 UTC.
C7_Witness ==
    /\ outfile.written
    /\ \E number \in DOMAIN outfile.content :
        /\ outfile.content[number] # EmptyRecord
        /\ presence[outfile.content[number].id]
               = UserStatusOffline(DateTime(2024, 12, 31, 23, 59, 30, "UTC"))

\* C8: at most one remote request is outstanding; the import is requested only
\* after every number's membership check has been answered; a lookup is
\* requested only after the import, if one was requested, has returned; at most
\* one number's lookup is unfinished at a time; and the delete is requested
\* only when no lookup is outstanding and the fetch phase is over.
C8_OneCallAtATime ==
    /\ Cardinality(inflight) <= 1
    /\ \A r \in InFlight("ImportContactsRequest") :
        /\ unchecked = {}
        /\ issued["GetContactsRequest"] = Cardinality(cleaned_numbers)
        /\ issued["get_peer_id"] = 0
    /\ \A r \in UNION {InFlight(k) : k \in FetchKinds} :
        /\ unchecked = {}
        /\ issued["ImportContactsRequest"] = 1 => ~temp_contacts.is_none
        /\ issued["DeleteContactsRequest"] = 0
    /\ issued["get_peer_id"] <= Cardinality(DOMAIN res) + 1
    /\ \A r \in InFlight("DeleteContactsRequest") :
        /\ issued["get_peer_id"] = Cardinality(DOMAIN res) + Cardinality(failed)
        /\ unfetched = {} \/ exc # NoError

\* C8 witness: in a batch of three numbers with an import behind it, the third
\* lookup is outstanding and the first two have delivered their records.
C8_Witness ==
    /\ InFlight("get_peer_id") # {}
    /\ issued["ImportContactsRequest"] = 1
    /\ issued["GetContactsRequest"] = 3
    /\ Cardinality(DOMAIN res) = 2
    /\ unfetched = {}

\* C9 as stated: the import is requested only if some number is no contact,
\* the delete is requested only if the import created contacts, and a run
\* whose numbers are all contacts requests neither and leaves the list alone.
C9_DeleteOnlyIfCreated ==
    /\ issued["ImportContactsRequest"] > 0 => \E number \in cleaned_numbers : ~WasContact(number)
    /\ issued["DeleteContactsRequest"] > 0 => Imported # {}
    /\ (pc \notin {"validate_users", "clean"} /\ \A number \in cleaned_numbers : WasContact(number))
        => /\ issued["ImportContactsRequest"] = 0
           /\ issued["DeleteContactsRequest"] = 0
           /\ contacts = contacts0

\* C9 amended: the import is requested only if some number is no contact, the
\* delete is requested only if the import was requested and returned (also
\* when it created no contact: the delete then carries an empty list), and a
\* run whose numbers are all contacts requests neither and leaves the list
\* alone.
C9_DeleteOnlyIfImportReturned ==
    /\ issued["ImportContactsRequest"] > 0 => \E number \in cleaned_numbers : ~WasContact(number)
    /\ issued["DeleteContactsRequest"] > 0 =>
        /\ issued["ImportContactsRequest"] = 1
        /\ ~temp_contacts.is_none
        /\ "ImportContactsRequest" \notin failed
    /\ \A r \in InFlight("DeleteContactsRequest") : Imported = {} => r.arg = {}
    /\ (pc \notin {"validate_users", "clean"} /\ \A number \in cleaned_numbers : WasContact(number))
        => /\ issued["ImportContactsRequest"] = 0
           /\ issued["DeleteContactsRequest"] = 0
           /\ contacts = contacts0

\* C9 witness: a run over two numbers that were both contacts has ended with
\* no import and no delete requested.
C9_Witness ==
    /\ pc = "done"
    /\ Cardinality(cleaned_numbers) = 2
    /\ \A number \in cleaned_numbers : WasContact(number)
    /\ issued["ImportContactsRequest"] = 0
    /\ issued["DeleteContactsRequest"] = 0

\* C10: results are printed or written only with no request outstanding, no
\* delete failed and the contact list equal to the pre-run list; and once the
\* delete request has failed, the function is left by the exception, exactly
\* one delete request was issued, and nothing is returned, printed or written.
C10_ReportAfterCleanup ==
    /\ (outfile.written \/ console.written) =>
        /\ inflight = {}
        /\ "DeleteContactsRequest" \notin failed
        /\ contacts = contacts0
        /\ ~temp_contacts.is_none => issued["DeleteContactsRequest"] = 1
    /\ "DeleteContactsRequest" \in failed =>
        /\ pc = "raised"
        /\ exc = RemoteServiceError
        /\ issued["DeleteContactsRequest"] = 1
        /\ result = NotReturned
        /\ outfile = NotWritten
        /\ console = NotWritten

\* C10 witness: every lookup of the batch succeeded, the delete request failed,
\* and the error has reached the caller with the imported contacts left behind.
C10_Witness ==
    /\ pc = "raised"
    /\ failed = {"DeleteContactsRequest"}
    /\ DOMAIN res = cleaned_numbers
    /\ \E number \in DOMAIN res : res[number] # EmptyRecord
    /\ contacts # contacts0

====
